---- MODULE Spec2Model ----
(***************************************************************************)
(* A model of the FaskerAI chat component (src/src/App.jsx): the React     *)
(* state of the component, the handlers bound to the UI, the pending       *)
(* fetch and the continuation that runs when it settles.                   *)
(*                                                                         *)
(* Text is a sequence of tokens: a typed character is a one-character      *)
(* token, a literal of the source is one opaque token.  Concatenation of   *)
(* strings is \o, so a template literal is the sequence of its parts.      *)
(***************************************************************************)
EXTENDS Integers, Sequences, FiniteSets, TLC

VARIABLES
  messages,     \* useState (line 6): the sequence of {id, text, sender}
  input,        \* useState (line 9): the text of the input box
  loading,      \* useState (line 10): a request is awaited
  apiKey,       \* useState (line 11), set by the mount effect (lines 16-23)
  sidebarOpen,  \* useState (line 12)
  now,          \* the value Date.now() returns
  inflight,     \* the fetches issued at line 51 and not yet settled
  op            \* the handler that ran last

vars == <<messages, input, loading, apiKey, sidebarOpen, now, inflight, op>>

(***************************************************************************)
(* Bounds of the model.                                                    *)
(***************************************************************************)
\* the longest message sequence explored
MaxMsgs == 4
\* Date.now() when the component mounts (any value above the greeting's id)
Epoch == 2
\* how many milliseconds the clock advances during a run
MaxTicks == 2

\* values the user can put in the input box: empty, whitespace only, plain,
\* and text with surrounding whitespace
Inputs == { <<>>, <<" ">>, <<"a">>, <<" ", "a", " ">> }

\* values of import.meta.env.VITE_GEMINI_API_KEY: absent or present
EnvKeys == { "", "k" }

(***************************************************************************)
(* String.prototype.trim: strips leading and trailing whitespace.          *)
(***************************************************************************)
IsSpace(c) == c = " "

RECURSIVE TrimStart(_)
TrimStart(s) ==
  IF s = <<>> THEN <<>>
  ELSE IF IsSpace(Head(s)) THEN TrimStart(Tail(s)) ELSE s

RECURSIVE TrimEnd(_)
TrimEnd(s) ==
  IF s = <<>> THEN <<>>
  ELSE IF IsSpace(s[Len(s)]) THEN TrimEnd(SubSeq(s, 1, Len(s) - 1)) ELSE s

Trim(s) == TrimEnd(TrimStart(s))

(***************************************************************************)
(* The literals of the source.                                             *)
(***************************************************************************)
InitialMessages ==
  << [id |-> 1, text |-> <<"Hello! I'm FaskerAI. How can I help you today?">>,
      sender |-> "bot"] >>

ClearedMessages ==
  << [id |-> 1, text |-> <<"Hello! I'm FaskerAI. How can I help you today?">>,
      sender |-> "bot"] >>

NoKeyText == <<"Error: API key not configured. Please check your .env file.">>

InvalidFormatText == <<"Invalid response format from API">>

StatusText(status) == <<"API request failed with status ", ToString(status)>>

ErrorPrefix == <<"Sorry, I encountered an error: ">>

(***************************************************************************)
(* What the network can answer to one fetch.  kind "reject": the promise   *)
(* of fetch rejects with a TypeError whose message is reason.  kind        *)
(* "http": a Response with a status and a body; the body is not JSON       *)
(* ("unparsable", response.json() rejects with a SyntaxError), the JSON    *)
(* value null, or a JSON object that may carry error.message and           *)
(* candidates[0].content.parts[0].text.                                    *)
(***************************************************************************)
FetchFailedText == <<"Failed to fetch">>
JsonSyntaxText == <<"Unexpected token '<' is not valid JSON">>
NullDerefText == <<"Cannot read properties of null">>

Statuses == { 200, 500 }
ErrTexts == { <<>>, <<"quota exceeded">> }
ReplyTexts == { <<>>, <<"4">> }

Resp(kind, status, body, hasErr, err, hasText, text) ==
  [kind |-> kind, status |-> status, body |-> body,
   hasErr |-> hasErr, err |-> err, hasText |-> hasText, text |-> text]

Responses ==
  { Resp("reject", 0, "none", FALSE, <<>>, FALSE, <<>>) }
  \cup { Resp("http", s, b, FALSE, <<>>, FALSE, <<>>) :
           s \in Statuses, b \in {"unparsable", "null"} }
  \cup { Resp("http", s, "object", he, IF he THEN e ELSE <<>>,
              ht, IF ht THEN t ELSE <<>>) :
           s \in Statuses, he \in BOOLEAN, e \in ErrTexts,
           ht \in BOOLEAN, t \in ReplyTexts }

\* response.ok
Ok(r) == r.status >= 200 /\ r.status <= 299

\* JavaScript truthiness of an optional string: present and not empty
Truthy(has, s) == has /\ s # <<>>

Thrown(msg) == [thrown |-> TRUE, text |-> msg]
Replied(txt) == [thrown |-> FALSE, text |-> txt]

(***************************************************************************)
(* The body of the try block once the fetch has settled with r: the        *)
(* error it throws, or the reply it appends.                               *)
(***************************************************************************)
TryBlock(r) ==
  IF r.kind = "reject" THEN Thrown(FetchFailedText)
  ELSE IF r.body = "unparsable" THEN Thrown(JsonSyntaxText)
  ELSE IF ~Ok(r) THEN
    IF r.body = "null" THEN Thrown(NullDerefText)
    ELSE Thrown(IF Truthy(r.hasErr, r.err) THEN r.err ELSE StatusText(r.status))
  ELSE IF r.body = "null" THEN Thrown(NullDerefText)
  ELSE IF Truthy(r.hasText, r.text) THEN Replied(r.text)
  ELSE Thrown(InvalidFormatText)

\* the text of the bot message the continuation appends
BotText(r) ==
  IF TryBlock(r).thrown THEN ErrorPrefix \o TryBlock(r).text
  ELSE TryBlock(r).text

\* variant: setLoading(false) at the end of the try block, not in finally
LoadingAfterNoFinally(r) == TryBlock(r).thrown

\* the value of loading once the handler has returned
LoadingAfter(r) == FALSE

Msg(id, text, sender) == [id |-> id, text |-> text, sender |-> sender]

RemoveAt(s, i) == SubSeq(s, 1, i - 1) \o SubSeq(s, i + 1, Len(s))

\* room for n more messages, counting one reply per pending fetch
Room(n) == Len(messages) + Len(inflight) + n <= MaxMsgs

(***************************************************************************)
(* State after the component has mounted and its mount effect has run.     *)
(***************************************************************************)
Init ==
  /\ messages = InitialMessages
  /\ input = <<>>
  /\ loading = FALSE
  /\ apiKey \in EnvKeys
  /\ sidebarOpen = FALSE
  /\ now = Epoch
  /\ inflight = <<>>
  /\ op = "mount"

(***************************************************************************)
(* handleSendMessage up to its await.                                      *)
(***************************************************************************)
\* variant: the guard tests input where the code tests input.trim()
AcceptsNoTrim == input # <<>> /\ ~loading

\* the entry guard passes
Accepts == Trim(input) # <<>> /\ ~loading

\* line 34: the guard fails and the handler returns
sendRejected ==
  /\ ~Accepts
  /\ UNCHANGED <<messages, input, loading, inflight>>

\* variant: the missing-credential branch lacks its return
sendMissingKeyNoReturn ==
  /\ Trim(input) # <<>> /\ ~loading
  /\ apiKey = ""
  /\ Room(3)
  /\ messages' = messages \o << Msg(now, NoKeyText, "bot"), Msg(now, input, "user") >>
  /\ input' = <<>>
  /\ loading' = TRUE
  /\ inflight' = Append(inflight, [prompt |-> input, key |-> apiKey])

\* lines 36-43: no credential, a local error message and return
sendMissingKey ==
  /\ Accepts
  /\ apiKey = ""
  /\ Room(1)
  /\ messages' = Append(messages, Msg(now, NoKeyText, "bot"))
  /\ UNCHANGED <<input, loading, inflight>>

\* variant: setLoading(true) is missing
sendRequestNoLoading ==
  /\ Trim(input) # <<>> /\ ~loading
  /\ apiKey # ""
  /\ Room(2)
  /\ messages' = Append(messages, Msg(now, input, "user"))
  /\ input' = <<>>
  /\ inflight' = Append(inflight, [prompt |-> input, key |-> apiKey])
  /\ UNCHANGED loading

\* lines 45-60: the user message, the state updates and the fetch
sendRequest ==
  /\ Accepts
  /\ apiKey # ""
  /\ Room(2)
  /\ messages' = Append(messages, Msg(now, input, "user"))
  /\ input' = <<>>
  /\ loading' = TRUE
  /\ inflight' = Append(inflight, [prompt |-> input, key |-> apiKey])

handleSendMessage ==
  /\ \/ sendRejected
     \/ sendMissingKey
     \/ sendRequest
  /\ op' = "handleSendMessage"
  /\ UNCHANGED <<apiKey, sidebarOpen, now>>

(***************************************************************************)
(* The rest of handleSendMessage: pending fetch i settles with r.          *)
(***************************************************************************)
\* variant: the catch block logs the error and appends nothing
handleResponseSilent(i, r) ==
  /\ messages' = IF TryBlock(r).thrown THEN messages
                 ELSE Append(messages, Msg(now + 1, BotText(r), "bot"))
  /\ loading' = LoadingAfter(r)
  /\ inflight' = RemoveAt(inflight, i)
  /\ op' = "handleResponse"
  /\ UNCHANGED <<input, apiKey, sidebarOpen, now>>

handleResponse(i, r) ==
  /\ messages' = Append(messages, Msg(now + 1, BotText(r), "bot"))
  /\ loading' = LoadingAfter(r)
  /\ inflight' = RemoveAt(inflight, i)
  /\ op' = "handleResponse"
  /\ UNCHANGED <<input, apiKey, sidebarOpen, now>>

Resolve == \E i \in DOMAIN inflight : \E r \in Responses : handleResponse(i, r)

\* variant: New Chat leaves the sidebar as it is
clearChatKeepSidebar ==
  /\ messages' = ClearedMessages
  /\ op' = "clearChat"
  /\ UNCHANGED <<input, loading, apiKey, sidebarOpen, now, inflight>>

\* variant: New Chat also clears the loading flag
clearChatStopLoading ==
  /\ messages' = ClearedMessages
  /\ sidebarOpen' = FALSE
  /\ loading' = FALSE
  /\ op' = "clearChat"
  /\ UNCHANGED <<input, apiKey, now, inflight>>

clearChat ==
  /\ messages' = ClearedMessages
  /\ sidebarOpen' = FALSE
  /\ op' = "clearChat"
  /\ UNCHANGED <<input, loading, apiKey, now, inflight>>

toggleSidebar ==
  /\ sidebarOpen' = ~sidebarOpen
  /\ op' = "toggleSidebar"
  /\ UNCHANGED <<messages, input, loading, apiKey, now, inflight>>

\* the input box is disabled while loading
onChange ==
  /\ ~loading
  /\ \E v \in Inputs : input' = v
  /\ op' = "onChange"
  /\ UNCHANGED <<messages, loading, apiKey, sidebarOpen, now, inflight>>

\* the millisecond clock behind Date.now()
Tick ==
  /\ now < Epoch + MaxTicks
  /\ now' = now + 1
  /\ op' = "tick"
  /\ UNCHANGED <<messages, input, loading, apiKey, sidebarOpen, inflight>>

Next ==
  \/ handleSendMessage
  \/ Resolve
  \/ clearChat
  \/ toggleSidebar
  \/ onChange
  \/ Tick

Spec == Init /\ [][Next]_vars

\* every issued request eventually resolves or fails
FairSpec == Spec /\ WF_vars(Resolve)

(***************************************************************************)
(* Vocabulary of the properties, stated without the operators of the       *)
(* handlers.                                                               *)
(***************************************************************************)
Last(s) == s[Len(s)]

\* s is not empty after trimming
NonBlank(s) == \E i \in DOMAIN s : s[i] # " "

\* text t contains sub
Contains(t, sub) ==
  \E k \in 0..(Len(t) - Len(sub)) : SubSeq(t, k + 1, k + Len(sub)) = sub

\* this step appends exactly one message, with this sender
AppendsOne(sender) ==
  /\ Len(messages') = Len(messages) + 1
  /\ SubSeq(messages', 1, Len(messages)) = messages
  /\ Last(messages').sender = sender

\* this step is the continuation of a pending fetch that settled with r
ResolvedWith(r) == \E i \in DOMAIN inflight : handleResponse(i, r)

\* the endpoint answered 2xx with a body that holds a reply string
SuccessWith(r) ==
  /\ r.kind = "http"
  /\ r.status \in 200..299
  /\ r.body = "object"
  /\ r.hasText

\* the request failed: network error, non-2xx status, or a body without a reply
Failed(r) ==
  \/ r.kind = "reject"
  \/ r.status \notin 200..299
  \/ r.body # "object"
  \/ ~r.hasText

\* C1: at most one outbound request is in flight in every reachable state.
C1_AtMostOneInFlight == Len(inflight) <= 1

\* a submit was attempted, and turned away, while a request was in flight
C1_Witness ==
  /\ op = "handleSendMessage"
  /\ Len(inflight) = 1
  /\ messages = InitialMessages

\* C2: an accepted submission appends {user, input}, clears the input and sets
\* awaiting-response; when the endpoint answers successfully with a reply string
\* R, exactly one message {bot, R} is appended, the input is still empty and
\* awaiting-response is false.
C2_SubmitThenReply ==
  [][ /\ (op' = "handleSendMessage" /\ NonBlank(input) /\ apiKey # "" /\ ~loading)
         => /\ AppendsOne("user")
            /\ Last(messages').text = input
            /\ input' = <<>>
      /\ \A r \in Responses :
           (ResolvedWith(r) /\ SuccessWith(r))
           => /\ AppendsOne("bot")
              /\ Last(messages').text = r.text
              /\ input' = <<>>
              /\ ~loading' ]_vars

\* C2 restricted to replies that are not the empty string.
C2_NonEmptyReply ==
  [][ /\ (op' = "handleSendMessage" /\ NonBlank(input) /\ apiKey # "" /\ ~loading)
         => /\ AppendsOne("user")
            /\ Last(messages').text = input
            /\ input' = <<>>
      /\ \A r \in Responses :
           (ResolvedWith(r) /\ SuccessWith(r) /\ r.text # <<>>)
           => /\ AppendsOne("bot")
              /\ Last(messages').text = r.text
              /\ input' = <<>>
              /\ ~loading' ]_vars

\* C3: a submit whose entry guard fails (input empty after trimming, or
\* awaiting-response set) changes nothing and issues no request.
C3_RejectedSubmitIsNoOp ==
  [][ (op' = "handleSendMessage" /\ (~NonBlank(input) \/ loading))
      => UNCHANGED <<messages, input, loading, sidebarOpen, inflight>> ]_vars

\* a submit was attempted with a whitespace-only input
C3_Witness ==
  /\ op = "handleSendMessage"
  /\ input = <<" ">>
  /\ Len(messages) > 1

\* C4: without a credential, every submission of a non-blank input appends
\* exactly one bot message with the fixed text, issues no request, and leaves
\* the input and awaiting-response (false) alone.
C4_MissingKeyError ==
  [][ (op' = "handleSendMessage" /\ apiKey = "" /\ NonBlank(input) /\ ~loading)
      => /\ AppendsOne("bot")
         /\ Last(messages').text = NoKeyText
         /\ inflight' = inflight
         /\ ~loading' ]_vars

\* two submissions without a credential, one error message each
C4_Witness ==
  /\ apiKey = ""
  /\ Len(messages) = 3
  /\ messages[2].text = NoKeyText
  /\ messages[3].text = NoKeyText
  /\ inflight = <<>>

\* C5: after New Chat the message sequence is the message sequence of session
\* start, the sidebar is closed, and no request was issued or dropped.
C5_ResetRestoresGreeting ==
  [][ op' = "clearChat"
      => /\ messages' = InitialMessages
         /\ ~sidebarOpen'
         /\ inflight' = inflight ]_vars

\* New Chat was pressed with the sidebar open and a conversation on screen
C5_Witness ==
  /\ op = "clearChat"
  /\ messages = InitialMessages
  /\ ~sidebarOpen
  /\ inflight # <<>>

\* C6: every resolution of a request clears awaiting-response, a submission of a
\* non-blank input while it is clear is accepted, and, requests resolving
\* eventually, awaiting-response set leads to awaiting-response clear.
C6_LoadingCleared ==
  /\ [][ /\ op' = "handleResponse" => ~loading'
         /\ (op' = "handleSendMessage" /\ ~loading /\ NonBlank(input))
            => Len(messages') = Len(messages) + 1 ]_vars
  /\ (loading ~> ~loading)

\* a request failed at the network and awaiting-response is clear
C6_Witness ==
  /\ op = "handleResponse"
  /\ ~loading
  /\ Last(messages).text = ErrorPrefix \o FetchFailedText

\* C7: every resolution of a request appends exactly one bot message; when the
\* request failed, its text is the error wrapper followed by a reason.
C7_OneBotMessagePerRequest ==
  [][ \A r \in Responses :
        ResolvedWith(r)
        => /\ AppendsOne("bot")
           /\ Failed(r)
              => /\ SubSeq(Last(messages').text, 1, Len(ErrorPrefix)) = ErrorPrefix
                 /\ Len(Last(messages').text) > Len(ErrorPrefix) ]_vars

\* a success body without the reply was turned into a bot message
C7_Witness ==
  /\ op = "handleResponse"
  /\ Last(messages).sender = "bot"
  /\ Last(messages).text = ErrorPrefix \o InvalidFormatText

\* C8: for a non-2xx response the bot message contains the body's error
\* message when the body carries one, and the status code otherwise.
C8_StatusOrBodyMessage ==
  [][ \A r \in Responses :
        (ResolvedWith(r) /\ r.kind = "http" /\ r.status \notin 200..299)
        => IF r.body = "object" /\ r.hasErr
           THEN Contains(Last(messages').text, r.err)
           ELSE Contains(Last(messages').text, <<ToString(r.status)>>) ]_vars

\* C8 restricted to bodies that parse to a JSON object.
C8_ParsedObjectBodies ==
  [][ \A r \in Responses :
        (ResolvedWith(r) /\ r.kind = "http" /\ r.status \notin 200..299
           /\ r.body = "object")
        => IF r.hasErr /\ r.err # <<>>
           THEN Contains(Last(messages').text, r.err)
           ELSE Contains(Last(messages').text, <<ToString(r.status)>>) ]_vars

\* C9: the ids of the messages strictly increase in sequence order.
C9_IdsStrictlyIncrease ==
  \A i, j \in DOMAIN messages : i < j => messages[i].id < messages[j].id

\* C10: a New Chat while a request is in flight leaves awaiting-response set and
\* the request pending; submissions stay rejected; the resolution then appends
\* one bot message to the greeting.
C10_ResetInFlight ==
  [][ /\ (op' = "clearChat" /\ loading)
         => /\ loading'
            /\ messages' = InitialMessages
            /\ inflight' = inflight
      /\ (op' = "handleSendMessage" /\ loading)
         => UNCHANGED <<messages, loading, inflight>>
      /\ (op' = "handleResponse" /\ messages = InitialMessages)
         => /\ Len(messages') = 2
            /\ messages'[1] = InitialMessages[1]
            /\ messages'[2].sender = "bot"
            /\ ~loading' ]_vars

\* the request outlived a New Chat: greeting, then the bot message alone
C10_Witness ==
  /\ op = "handleResponse"
  /\ Len(messages) = 2
  /\ messages[1] = InitialMessages[1]
  /\ messages[2].sender = "bot"
  /\ ~loading

====
